---- MODULE Spec2Model ----
(***************************************************************************)
(* Loan lifecycle of the library backend: the Borrow and Return views, the *)
(* catalog views, and the check_due_books task, over the Book and          *)
(* BorrowedBook tables.  Every database access of a handler is one step,   *)
(* so that handlers running in different workers interleave between their *)
(* queries exactly as the views do (no transaction, no row lock).          *)
(***************************************************************************)
EXTENDS Integers, FiniteSets, Sequences, TLC

\* ---------------------------------------------------------------- bounds
MaxLoans == 2           \* BorrowedBook rows ever created
MaxCopies == 2          \* largest copy count a book is given
MaxClock == 17          \* last instant of the clock (days)
ClockLoans == 1         \* BorrowedBook rows created while the clock runs

\* ------------------------------------------------------ program constants
LoanPeriod == 15        \* timedelta(days=15)

\* the workers that serve requests, each one request at a time
Handlers == {1, 2}
BookIds == {1, 2}
\* the copies the library holds of each book when the service starts
TotalCopies == (1 :> 1) @@ (2 :> 2)
Users == {"ann", "bob", "lib", "adm"}

\* User.role (default 'member')
role(u) ==
    CASE u = "adm" -> "admin"
      [] u = "lib" -> "librarian"
      [] OTHER -> "member"

Members == {u \in Users : role(u) = "member"}

VARIABLES
    catalog,            \* ids of the Book rows that exist
    available_copies,   \* Book.available_copies, by book id
    loans,              \* BorrowedBook table: id -> row
    next_loan_id,       \* the table's auto-increment counter
    clock,              \* now()
    pc,                 \* each handler's position
    req,                \* the request a handler serves
    book,               \* handler local: available_copies of the Book instance it read
    borrowed_book,      \* handler local: its BorrowedBook instance
    due_books,          \* handler local: check_due_books' query time and result
    resp,               \* HTTP status of the handler's response (0: none yet)
    pre                 \* tables as they were when the handler's request arrived

vars == <<catalog, available_copies, loans, next_loan_id, clock,
          pc, req, book, borrowed_book, due_books, resp, pre>>

tables == <<catalog, available_copies, loans, next_loan_id>>
locals == <<book, borrowed_book, due_books>>

NoReq == [kind |-> "none", user |-> "none", book |-> 0, value |-> 0]
NoLoan == [id |-> 0, user |-> "none", book |-> 0, borrowed_at |-> 0,
           due_date |-> 0, returned |-> FALSE]
NoScan == [now |-> 0, ids |-> {}, count |-> 0]
NoSnapshot == [catalog |-> {}, available_copies |-> <<>>, loans |-> <<>>]
Snapshot == [catalog |-> catalog, available_copies |-> available_copies, loans |-> loans]

Free(p) == pc[p] \in {"idle", "done"}

\* get_due_date
get_due_date == clock + LoanPeriod

\* the lookup with the user filter left out
ActiveLoansOfAnyUser(t, u, b) ==
    {i \in DOMAIN t : t[i].book = b /\ ~t[i].returned}

\* the rows of loans that BorrowedBook.objects.get(book_id, user, returned=False) matches
ActiveLoans(t, u, b) ==
    {i \in DOMAIN t : t[i].book = b /\ t[i].user = u /\ ~t[i].returned}

\* the filter with due_date__lte in place of due_date__lt
OverdueLoansInclusive(t, now) ==
    {i \in DOMAIN t : ~t[i].returned /\ t[i].due_date <= now}

\* the rows check_due_books' filter(returned=False, due_date__lt=now) selects
OverdueLoans(t, now) ==
    {i \in DOMAIN t : ~t[i].returned /\ t[i].due_date < now}

\* the stock test with < in place of <=
OutOfStockStrict(n) == n < 0

\* the stock test left out
OutOfStockUnchecked(n) == FALSE

\* the stock test of BorrowBookView.post
OutOfStock(n) == n <= 0

\* the role test of the catalog views
MayEditCatalog(u) == role(u) \in {"admin", "librarian"}

Row(inst) == [user |-> inst.user, book |-> inst.book, borrowed_at |-> inst.borrowed_at,
              due_date |-> inst.due_date, returned |-> inst.returned]

\* Model.save(): UPDATE the row with the instance's id, INSERT it when there is none
SaveLoan(t, inst) == (inst.id :> Row(inst)) @@ t

\* The handler returns its response; its BorrowedBook instance goes out of scope.
Done(p, status) ==
    /\ pc' = [pc EXCEPT ![p] = "done"]
    /\ resp' = [resp EXCEPT ![p] = status]
    /\ borrowed_book' = [borrowed_book EXCEPT ![p] = NoLoan]

Goto(p, label) ==
    /\ pc' = [pc EXCEPT ![p] = label]
    /\ UNCHANGED resp

\* a step that keeps the handler's BorrowedBook instance
Step(p, label) == Goto(p, label) /\ UNCHANGED borrowed_book

\* A request arrives at a free handler; snap is what is recorded of the tables.
Accept(p, r, first, snap) ==
    /\ Free(p)
    /\ pc' = [pc EXCEPT ![p] = first]
    /\ req' = [req EXCEPT ![p] = r]
    /\ resp' = [resp EXCEPT ![p] = 0]
    /\ book' = [book EXCEPT ![p] = 0]
    /\ borrowed_book' = [borrowed_book EXCEPT ![p] = NoLoan]
    /\ due_books' = [due_books EXCEPT ![p] = NoScan]
    /\ pre' = [pre EXCEPT ![p] = snap]
    /\ UNCHANGED <<tables, clock>>

InFlightBorrows ==
    Cardinality({q \in Handlers :
        pc[q] \in {"borrow_get", "borrow_check", "borrow_init", "borrow_insert"}})

\* ------------------------------------------------------ BorrowBookView.post
StartBorrow(p, u, b, snap) ==
    /\ (next_loan_id - 1) + InFlightBorrows < MaxLoans
    /\ Accept(p, [kind |-> "borrow", user |-> u, book |-> b, value |-> 0], "borrow_get", snap)

\* book = Book.objects.get(id=book_id)
BorrowGet(p) ==
    /\ pc[p] = "borrow_get"
    /\ IF req[p].book \in catalog
         THEN /\ book' = [book EXCEPT ![p] = available_copies[req[p].book]]
              /\ Step(p, "borrow_check")
         ELSE /\ Done(p, 404)
              /\ UNCHANGED book
    /\ UNCHANGED <<tables, clock, req, due_books, pre>>

\* if book.available_copies <= 0: return 400 'No copies available'
BorrowCheck(p) ==
    /\ pc[p] = "borrow_check"
    /\ IF OutOfStock(book[p]) THEN Done(p, 400) ELSE Step(p, "borrow_init")
    /\ UNCHANGED <<tables, clock, req, book, due_books, pre>>

\* BorrowedBook(user=, book=): the instance; due_date takes its default now
BorrowInit(p) ==
    /\ pc[p] = "borrow_init"
    /\ borrowed_book' = [borrowed_book EXCEPT ![p] =
            [id |-> 0, user |-> req[p].user, book |-> req[p].book, borrowed_at |-> 0,
             due_date |-> get_due_date, returned |-> FALSE]]
    /\ Goto(p, "borrow_insert")
    /\ UNCHANGED <<tables, clock, req, book, due_books, pre>>

\* ... .save(): auto_now_add sets borrowed_at, the row is inserted
BorrowInsert(p) ==
    /\ pc[p] = "borrow_insert"
    /\ LET inst == [borrowed_book[p] EXCEPT !.id = next_loan_id, !.borrowed_at = clock]
       IN /\ borrowed_book' = [borrowed_book EXCEPT ![p] = inst]
          /\ loans' = SaveLoan(loans, inst)
    /\ next_loan_id' = next_loan_id + 1
    /\ Goto(p, "borrow_save")
    /\ UNCHANGED <<catalog, available_copies, clock, req, book,
                   due_books, pre>>

\* the decrement left out
BorrowDecrementSkipped(n) == n

\* book.available_copies -= 1
BorrowDecrement(n) == n - 1

\* book.available_copies -= 1; book.save(); return 201
\* (book[p] stays the count that was read: only save() uses the decremented field)
\* The column's >= 0 check (PositiveIntegerField) is left out: no write of a
\* negative count is reachable (C8), so it never rejects a save.
BorrowSave(p) ==
    /\ pc[p] = "borrow_save"
    /\ available_copies' =
          [available_copies EXCEPT ![req[p].book] = BorrowDecrement(book[p])]
    /\ Done(p, 201)
    /\ UNCHANGED <<catalog, loans, next_loan_id, clock, req,
                   book, due_books, pre>>

\* book.save() raises: except Exception -> 500 'Borrowing failed!'
BorrowSaveFails(p) ==
    /\ pc[p] = "borrow_save"
    /\ Done(p, 500)
    /\ UNCHANGED <<tables, clock, req, book, due_books, pre>>

\* ------------------------------------------------------ ReturnBookView.post
StartReturn(p, u, b, snap) ==
    Accept(p, [kind |-> "return", user |-> u, book |-> b, value |-> 0], "return_get", snap)

\* BorrowedBook.objects.get(book_id=, user=, returned=False):
\* DoesNotExist -> 404, MultipleObjectsReturned -> except Exception -> 500
ReturnGet(p) ==
    /\ pc[p] = "return_get"
    /\ LET found == ActiveLoans(loans, req[p].user, req[p].book)
       IN IF found = {}
            THEN Done(p, 404)
            ELSE IF Cardinality(found) > 1
              THEN Done(p, 500)
              ELSE /\ \E i \in found :
                        borrowed_book' = [borrowed_book EXCEPT ![p] =
                            [id |-> i, user |-> loans[i].user, book |-> loans[i].book,
                             borrowed_at |-> loans[i].borrowed_at,
                             due_date |-> loans[i].due_date,
                             returned |-> loans[i].returned]]
                   /\ Goto(p, "return_save_loan")
    /\ UNCHANGED <<tables, clock, req, book, due_books, pre>>

\* borrowed_book.returned = True; borrowed_book.save()
ReturnSaveLoan(p) ==
    /\ pc[p] = "return_save_loan"
    /\ LET inst == [borrowed_book[p] EXCEPT !.returned = TRUE]
       IN /\ borrowed_book' = [borrowed_book EXCEPT ![p] = inst]
          /\ loans' = SaveLoan(loans, inst)
    /\ Goto(p, "return_fetch_book")
    /\ UNCHANGED <<catalog, available_copies, next_loan_id, clock,
                   req, book, due_books, pre>>

\* book = borrowed_book.book: the related Book is read from the table here
ReturnFetchBook(p) ==
    /\ pc[p] = "return_fetch_book"
    /\ IF borrowed_book[p].book \in catalog
         THEN /\ book' = [book EXCEPT ![p] = available_copies[borrowed_book[p].book]]
              /\ Step(p, "return_save_book")
         ELSE /\ Done(p, 500)
              /\ UNCHANGED book
    /\ UNCHANGED <<tables, clock, req, due_books, pre>>

\* book.available_copies += 1
ReturnIncrement(n) == n + 1

\* book.available_copies += 1; book.save(); return 200
ReturnSaveBook(p) ==
    /\ pc[p] = "return_save_book"
    /\ available_copies' =
          [available_copies EXCEPT ![borrowed_book[p].book] = ReturnIncrement(book[p])]
    /\ Done(p, 200)
    /\ UNCHANGED <<catalog, loans, next_loan_id, clock, req,
                   book, due_books, pre>>

\* book.save() raises: except Exception -> 500 'Return failed!'
ReturnSaveBookFails(p) ==
    /\ pc[p] = "return_save_book"
    /\ Done(p, 500)
    /\ UNCHANGED <<tables, clock, req, book, due_books, pre>>

\* ------------------------------------------------------------- catalog views
\* rest_framework's generic views call perform_create / perform_update /
\* perform_destroy and build the response themselves: what perform_* returns is
\* dropped, and the view answers 201 / 200 / 204.
StartCreate(p, u, b, v, snap) ==
    /\ b \notin catalog
    /\ Accept(p, [kind |-> "create", user |-> u, book |-> b, value |-> v], "book_create", snap)

\* BookCreateView.perform_create, inside CreateAPIView.post
BookCreate(p) ==
    /\ pc[p] = "book_create"
    /\ IF MayEditCatalog(req[p].user)
         THEN /\ catalog' = catalog \cup {req[p].book}
              /\ available_copies' = [available_copies EXCEPT ![req[p].book] = req[p].value]
         ELSE UNCHANGED <<catalog, available_copies>>
    /\ Done(p, 201)
    /\ UNCHANGED <<loans, next_loan_id, clock, req, book, due_books, pre>>

StartUpdate(p, u, b, v, snap) ==
    Accept(p, [kind |-> "update", user |-> u, book |-> b, value |-> v], "book_update", snap)

\* BookUpdateDeleteView.perform_update, inside RetrieveUpdateDestroyAPIView.put
BookUpdate(p) ==
    /\ pc[p] = "book_update"
    /\ IF req[p].book \notin catalog
         THEN Done(p, 404) /\ UNCHANGED available_copies
         ELSE /\ IF MayEditCatalog(req[p].user)
                   THEN available_copies' =
                            [available_copies EXCEPT ![req[p].book] = req[p].value]
                   ELSE UNCHANGED available_copies
              /\ Done(p, 200)
    /\ UNCHANGED <<catalog, loans, next_loan_id, clock, req, book,
                   due_books, pre>>

StartDelete(p, u, b, snap) ==
    Accept(p, [kind |-> "delete", user |-> u, book |-> b, value |-> 0], "book_destroy", snap)

\* instance.delete(): BorrowedBook.book is on_delete=CASCADE
CascadeDelete(t, b) == [i \in {j \in DOMAIN t : t[j].book # b} |-> t[i]]

\* BookUpdateDeleteView.perform_destroy, inside RetrieveUpdateDestroyAPIView.delete
BookDestroy(p) ==
    /\ pc[p] = "book_destroy"
    /\ IF req[p].book \notin catalog
         THEN Done(p, 404) /\ UNCHANGED <<catalog, available_copies, loans>>
         ELSE /\ IF MayEditCatalog(req[p].user)
                   THEN /\ catalog' = catalog \ {req[p].book}
                        /\ available_copies' = [available_copies EXCEPT ![req[p].book] = 0]
                        /\ loans' = CascadeDelete(loans, req[p].book)
                   ELSE UNCHANGED <<catalog, available_copies, loans>>
              /\ Done(p, 204)
    /\ UNCHANGED <<next_loan_id, clock, req, book, due_books, pre>>

\* ------------------------------------------------------------ check_due_books
StartScan(p, snap) ==
    Accept(p, [kind |-> "scan", user |-> "none", book |-> 0, value |-> 0], "scan_now", snap)

\* filter(returned=False, due_date__lt=datetime.now()): the clock is read when the
\* queryset is built
ScanNow(p) ==
    /\ pc[p] = "scan_now"
    /\ due_books' = [due_books EXCEPT ![p] = [NoScan EXCEPT !.now = clock]]
    /\ Step(p, "scan_query")
    /\ UNCHANGED <<tables, clock, req, book, pre>>

\* for book in due_books: the query runs; due_books.count() counts the fetched rows
ScanQuery(p) ==
    /\ pc[p] = "scan_query"
    /\ LET ids == OverdueLoans(loans, due_books[p].now)
       IN due_books' = [due_books EXCEPT ![p] =
              [now |-> due_books[p].now, ids |-> ids, count |-> Cardinality(ids)]]
    /\ Done(p, 200)
    /\ UNCHANGED <<tables, clock, req, book, pre>>

\* time passes
Tick ==
    /\ clock < MaxClock
    /\ clock' = clock + 1
    /\ UNCHANGED <<tables, pc, req, locals, resp, pre>>

Init ==
    /\ catalog = BookIds
    /\ available_copies = TotalCopies
    /\ loans = <<>>
    /\ next_loan_id = 1
    /\ clock = 0
    /\ pc = [p \in Handlers |-> "idle"]
    /\ req = [p \in Handlers |-> NoReq]
    /\ book = [p \in Handlers |-> 0]
    /\ borrowed_book = [p \in Handlers |-> NoLoan]
    /\ due_books = [p \in Handlers |-> NoScan]
    /\ resp = [p \in Handlers |-> 0]
    /\ pre = [p \in Handlers |-> NoSnapshot]

BorrowStep == \E p \in Handlers :
    BorrowGet(p) \/ BorrowCheck(p) \/ BorrowInit(p) \/ BorrowInsert(p) \/ BorrowSave(p)

ReturnStep == \E p \in Handlers :
    ReturnGet(p) \/ ReturnSaveLoan(p) \/ ReturnFetchBook(p) \/ ReturnSaveBook(p)

\* Requests arrive at any free worker while others are being served.
Next ==
    \/ \E p \in Handlers, u \in Members, b \in BookIds : StartBorrow(p, u, b, NoSnapshot)
    \/ \E p \in Handlers, u \in Members, b \in BookIds : StartReturn(p, u, b, NoSnapshot)
    \/ BorrowStep
    \/ ReturnStep

Spec == Init /\ [][Next]_vars

\* One worker: a request is accepted only after the previous response.
Serial(p) == p = 1

NextSeq ==
    \/ \E p \in Handlers, u \in Members, b \in BookIds : Serial(p) /\ StartBorrow(p, u, b, Snapshot)
    \/ \E p \in Handlers, u \in Members, b \in BookIds : Serial(p) /\ StartReturn(p, u, b, Snapshot)
    \/ BorrowStep
    \/ ReturnStep

SpecSeq == Init /\ [][NextSeq]_vars

\* One worker, whose writes of available_copies may fail.
NextFault ==
    \/ NextSeq
    \/ \E p \in Handlers : BorrowSaveFails(p)
    \/ \E p \in Handlers : ReturnSaveBookFails(p)

SpecFault == Init /\ [][NextFault]_vars

CatalogStep == \E p \in Handlers : BookCreate(p) \/ BookUpdate(p) \/ BookDestroy(p)

\* One worker that also serves the catalog views.
NextCatalog ==
    \/ NextSeq
    \/ \E p \in Handlers, u \in Users, b \in BookIds, v \in 0..MaxCopies :
          Serial(p) /\ StartCreate(p, u, b, v, Snapshot)
    \/ \E p \in Handlers, u \in Users, b \in BookIds, v \in 0..MaxCopies :
          Serial(p) /\ StartUpdate(p, u, b, v, Snapshot)
    \/ \E p \in Handlers, u \in Users, b \in BookIds :
          Serial(p) /\ StartDelete(p, u, b, Snapshot)
    \/ CatalogStep

SpecCatalog == Init /\ [][NextCatalog]_vars

ScanStep == \E p \in Handlers : ScanNow(p) \/ ScanQuery(p)

\* One worker, the task, and the clock; one member borrows one title.
ClockUsers == {"ann"}
ClockBooks == {2}

NextClock ==
    \/ \E p \in Handlers, u \in ClockUsers, b \in ClockBooks :
          Serial(p) /\ next_loan_id <= ClockLoans /\ StartBorrow(p, u, b, NoSnapshot)
    \/ \E p \in Handlers, u \in ClockUsers, b \in ClockBooks :
          Serial(p) /\ StartReturn(p, u, b, NoSnapshot)
    \/ BorrowStep
    \/ ReturnStep
    \/ \E p \in Handlers : Serial(p) /\ StartScan(p, NoSnapshot)
    \/ ScanStep
    \/ Tick

SpecClock == Init /\ [][NextClock]_vars

\* ------------------------------------------------------------------ claims
Quiet == \A p \in Handlers : Free(p)

ActiveOn(t, b) == Cardinality({i \in DOMAIN t : t[i].book = b /\ ~t[i].returned})

\* the active loans of (u, b) in the tables as request p found them
HeldBefore(p) ==
    {i \in DOMAIN pre[p].loans :
        /\ pre[p].loans[i].user = req[p].user
        /\ pre[p].loans[i].book = req[p].book
        /\ ~pre[p].loans[i].returned}

TablesAsBefore(p) ==
    /\ catalog = pre[p].catalog
    /\ available_copies = pre[p].available_copies
    /\ loans = pre[p].loans

\* C1: with requests served one after another, between requests every book's
\* available_copies is its initial copies minus its loans with returned = false.
C1_CopiesMatchLedger ==
    Quiet => \A b \in BookIds :
        available_copies[b] = TotalCopies[b] - ActiveOn(loans, b)

C1_Witness ==
    /\ Quiet
    /\ \E i, j \in DOMAIN loans :
          /\ loans[i].book = loans[j].book
          /\ loans[i].returned
          /\ ~loans[j].returned

\* C2: two distinct users' Borrow requests that each found available_copies = 1 on
\* the same book (no Return having touched it) end with exactly one 201 and one
\* 400 'No copies available', and the count is not negative.
C2_ExactlyOneBorrowSucceeds ==
    \A p, q \in Handlers :
        ( /\ p # q
          /\ pc[p] = "done" /\ pc[q] = "done"
          /\ req[p].kind = "borrow" /\ req[q].kind = "borrow"
          /\ req[p].book = req[q].book
          /\ req[p].user # req[q].user
          /\ book[p] = 1 /\ book[q] = 1
          /\ \A i \in DOMAIN loans : loans[i].book = req[p].book => ~loans[i].returned )
        => /\ {resp[p], resp[q]} = {201, 400}
           /\ available_copies[req[p].book] >= 0

\* C3: Borrow on a book that exists and has available_copies = 0 answers 400
\* 'No copies available' and leaves the loans and every book's count as they were.
C3_BorrowOutOfStockRefused ==
    \A p \in Handlers :
        ( /\ pc[p] = "done"
          /\ req[p].kind = "borrow"
          /\ req[p].book \in pre[p].catalog
          /\ pre[p].available_copies[req[p].book] = 0 )
        => resp[p] = 400 /\ TablesAsBefore(p)

C3_Witness ==
    \E p \in Handlers :
        /\ pc[p] = "done"
        /\ req[p].kind = "borrow"
        /\ req[p].book \in pre[p].catalog
        /\ pre[p].available_copies[req[p].book] = 0
        /\ ActiveOn(loans, req[p].book) > 0

\* C4: Return by a user who holds no loan with returned = false on that book
\* answers 404 and leaves the loans and every book's count as they were.
C4_ReturnWithoutLoanNotFound ==
    \A p \in Handlers :
        ( /\ pc[p] = "done"
          /\ req[p].kind = "return"
          /\ HeldBefore(p) = {} )
        => resp[p] = 404 /\ TablesAsBefore(p)

\* another user holds the book, and the requester's own loan of it is returned
C4_Witness ==
    \E p \in Handlers :
        /\ pc[p] = "done"
        /\ req[p].kind = "return"
        /\ HeldBefore(p) = {}
        /\ \E i \in DOMAIN loans :
              /\ loans[i].book = req[p].book
              /\ loans[i].user # req[p].user
              /\ ~loans[i].returned
        /\ \E i \in DOMAIN loans :
              /\ loans[i].book = req[p].book
              /\ loans[i].user = req[p].user
              /\ loans[i].returned

\* C5: a create, update or delete of a Book by a user who is neither admin nor
\* librarian is answered 403 and leaves the catalog as it was.
C5_MemberCatalogEditDenied ==
    \A p \in Handlers :
        ( /\ pc[p] = "done"
          /\ req[p].kind \in {"create", "update", "delete"}
          /\ role(req[p].user) \notin {"admin", "librarian"} )
        => resp[p] = 403 /\ TablesAsBefore(p)

\* C6: when the write of available_copies fails after the loan was created (Borrow)
\* or marked returned (Return), the loans and the counts are as before the request.
C6_FailedSecondWriteUndoesFirst ==
    \A p \in Handlers :
        ( /\ pc[p] = "done"
          /\ resp[p] = 500
          /\ \/ req[p].kind = "borrow"
             \/ req[p].kind = "return" /\ Cardinality(HeldBefore(p)) = 1 )
        => TablesAsBefore(p)

\* C7: Return by a user who holds two or more active loans of the book marks
\* exactly one of them returned, adds 1 to the book's count and answers 200.
C7_ReturnPicksOneOfSeveral ==
    \A p \in Handlers :
        ( /\ pc[p] = "done"
          /\ req[p].kind = "return"
          /\ Cardinality(HeldBefore(p)) >= 2 )
        => /\ resp[p] = 200
           /\ \E i \in HeldBefore(p) :
                 loans = [pre[p].loans EXCEPT ![i].returned = TRUE]
           /\ available_copies =
                 [pre[p].available_copies EXCEPT ![req[p].book] = @ + 1]

\* C8: available_copies is never negative, whatever the interleaving of the
\* Borrow and Return handlers.
C8_CopiesNeverNegative ==
    \A b \in BookIds : available_copies[b] >= 0

\* a race has lent more copies than the book has, and the count stands at 0
C8_Witness ==
    \E b \in BookIds :
        /\ available_copies[b] = 0
        /\ ActiveOn(loans, b) > TotalCopies[b]

\* C9: every loan's due_date is its borrowed_at plus exactly 15 days.
C9_DueDateIsBorrowedAtPlusPeriod ==
    \A i \in DOMAIN loans : loans[i].due_date = loans[i].borrowed_at + LoanPeriod

====
